---- MODULE Spec2Model ----
(***************************************************************************)
(* vrt_buffer: padding georeferenced raster tiles with a margin read from  *)
(* a mosaic (VRT), and cropping padded tiles back to the original extent.  *)
(*                                                                         *)
(* Rasters are modelled by their size, their six-coefficient geotransform, *)
(* their projection and the provenance of their pixel data: the pixel      *)
(* grid a window was copied from and the (col,row) of that grid that sits  *)
(* at the window's pixel (0,0).  Two windows of the same grid hold the     *)
(* same pixels exactly when they have the same origin and size, so pixel   *)
(* identity is decided by comparing provenance.                            *)
(*                                                                         *)
(* Geotransform coefficients are f64 in the program.  The model draws      *)
(* integer world coordinates and pixel sizes of magnitude 1 or 2, for      *)
(* which every product, difference and quotient the code forms is exact,   *)
(* and computes floor and truncation on the exact quotient.                *)
(***************************************************************************)
EXTENDS Integers, Sequences, FiniteSets, TLC

VARIABLES
    tile,       \* the original tile (Dataset::open(file_path))
    vrt,        \* the mosaic (vrt_ds / vrt_band)
    margin,     \* margin: usize
    pc,         \* position of the pad -> crop pipeline for one tile
    padres,     \* result of add_margin_to_geotiff
    cropres,    \* result of trim_buffered_to_size
    variant,    \* which batch driver runs: "lib" (lib.rs) or "main" (main.rs)
    op,         \* "pad" (vrt_buffer) or "crop" (crop_down_to_size)
    listing,    \* the entries fs::read_dir yields, in the order it yields them
    idx,        \* position of the batch loop in listing
    bpc,        \* position of the batch call
    result,     \* what the batch call returned: "none", "Ok", "Err"
    cause,      \* the step whose error the batch call returned
    outputs,    \* files written to the output directory
    skipped,    \* tiles reported on stderr as skipped
    invoked     \* tiles the per-tile operation was invoked on

vars == <<tile, vrt, margin, pc, padres, cropres,
          variant, op, listing, idx, bpc, result, cause, outputs, skipped, invoked>>

geomVars == <<tile, vrt, margin, pc, padres, cropres>>
batchVars == <<variant, op, listing, idx, bpc, result, cause, outputs, skipped, invoked>>

----------------------------------------------------------------------------
(* Bounds of the explored inputs *)

MaxMosaic == 3      \* mosaic width and height range over 1..MaxMosaic
MaxTile == 2        \* tile width and height range over 1..MaxTile
MaxMargin == 2      \* margin ranges over 0..MaxMargin
MaxFiles == 3       \* a directory listing holds at most MaxFiles entries

\* <<pixel_width, pixel_height>> of the grids explored: two north-up grids and
\* one mirrored grid (negative pixel width, positive pixel height).
Grids == {<<1, -1>>, <<2, -2>>, <<-1, 1>>}

\* World coordinates of tile origins: from outside the mosaic on one side to
\* outside it on the other.
Coords == (0 - (MaxMosaic + 1)) .. (MaxMosaic + 1)

----------------------------------------------------------------------------
(* Datasets *)

Abs(x) == IF x < 0 THEN 0 - x ELSE x
Min(a, b) == IF a < b THEN a ELSE b

\* A dataset that opens: raster_size(), geo_transform(), projection() and the
\* provenance of band 1's pixels.
Raster(w, h, gt, proj, data) ==
    [openable |-> TRUE, w |-> w, h |-> h, gt |-> gt, proj |-> proj, data |-> data]

\* A path Dataset::open fails on (missing or not a raster).
NoRaster ==
    [openable |-> FALSE, w |-> 0, h |-> 0, gt |-> <<0, 0, 0, 0, 0, 0>>,
     proj |-> "", data |-> <<"none", 0, 0>>]

\* A window (xoff, yoff, cols, rows) as the code computes it (isize values).
Window(xoff, yoff, cols, rows) ==
    [xoff |-> xoff, yoff |-> yoff, cols |-> cols, rows |-> rows]

NoWindow == Window(0, 0, 0, 0)

\* RasterBand::read_as on `win` of raster r.  The sizes are passed `as usize`:
\* a negative isize becomes a size of at least 2^63, which no raster holds.
ReadOk(r, win) ==
    /\ win.xoff >= 0 /\ win.yoff >= 0
    /\ win.cols >= 0 /\ win.rows >= 0
    /\ win.xoff + win.cols <= r.w
    /\ win.yoff + win.rows <= r.h

\* Driver::create_with_band_type: a raster has at least one pixel each way.
CreateOk(cols, rows) == cols >= 1 /\ rows >= 1

\* The pixels of window (dx, dy, ..) of a raster whose own pixels are `data`.
SubData(data, dx, dy) == <<data[1], data[2] + dx, data[3] + dy>>

\* Result of a per-tile operation.
TileOk(win, out) == [ok |-> TRUE, err |-> "", window |-> win, out |-> out]
TileErr(e, win) == [ok |-> FALSE, err |-> e, window |-> win, out |-> NoRaster]
NoResult == [ok |-> FALSE, err |-> "not run", window |-> NoWindow, out |-> NoRaster]

----------------------------------------------------------------------------
(* f64 arithmetic on the exact quotient num/den, den # 0 *)

\* floor(num/den)
FloorDiv(num, den) == IF den > 0 THEN num \div den ELSE (0 - num) \div (0 - den)

\* num/den < 0
QuotNeg(num, den) == (num < 0 /\ den > 0) \/ (num > 0 /\ den < 0)

\* (num/den).max(0.0).floor() as isize
MaxZeroFloorNoClamp(num, den) == FloorDiv(num, den)
MaxZeroFloor(num, den) == IF QuotNeg(num, den) THEN 0 ELSE FloorDiv(num, den)

\* num/den truncated toward zero
Trunc(num, den) ==
    IF QuotNeg(num, den) THEN 0 - FloorDiv(Abs(num), Abs(den))
    ELSE FloorDiv(Abs(num), Abs(den))

\* (num/den) as usize, then `as isize` where it is passed to read_as: the
\* float-to-integer cast truncates toward zero and saturates, so a negative
\* quotient becomes 0; den = 0 gives +inf (usize::MAX, -1 as isize), -inf (0)
\* or NaN (0).
AsUsizeNoSaturate(num, den) == IF den = 0 THEN 0 ELSE Trunc(num, den)
AsUsize(num, den) ==
    IF den = 0 THEN (IF num > 0 THEN 0 - 1 ELSE 0)
    ELSE IF QuotNeg(num, den) THEN 0
    ELSE Trunc(num, den)

----------------------------------------------------------------------------
(* add_margin_to_geotiff *)

\* new_geotransform: the origin moved out by margin pixels
ExpandOriginAdd(gt, m) ==
    <<gt[1] + m * gt[2], gt[2], gt[3], gt[4] + m * gt[6], gt[5], gt[6]>>
ExpandOrigin(gt, m) ==
    <<gt[1] - m * gt[2], gt[2], gt[3], gt[4] - m * gt[6], gt[5], gt[6]>>

\* xoff, yoff: the expanded origin in the mosaic's pixel grid
PadXoff(new_gt, vrt_gt) == MaxZeroFloor(new_gt[1] - vrt_gt[1], vrt_gt[2])
PadYoff(new_gt, vrt_gt) == MaxZeroFloor(vrt_gt[4] - new_gt[4], Abs(vrt_gt[6]))

\* cols, rows: "make sure we don't exceed the raster dimensions"
PadCols(v, ds, m, xoff) == Min(v.w - xoff, ds.w + 2 * m)
PadRows(v, ds, m, yoff) == Min(v.h - yoff, ds.h + 2 * m)

PadWindow(ds, v, m) ==
    LET new_geotransform == ExpandOrigin(ds.gt, m)
        xoff == PadXoff(new_geotransform, v.gt)
        yoff == PadYoff(new_geotransform, v.gt)
    IN  Window(xoff, yoff, PadCols(v, ds, m, xoff), PadRows(v, ds, m, yoff))

add_margin_to_geotiff(ds, m, v) ==
    LET win == PadWindow(ds, v, m)
    IN  IF ~ds.openable THEN TileErr("open", NoWindow)
        ELSE IF ~ReadOk(v, win) THEN TileErr("read", win)
        ELSE IF ~CreateOk(win.cols, win.rows) THEN TileErr("create", win)
        ELSE TileOk(win, Raster(win.cols, win.rows, ExpandOrigin(ds.gt, m), ds.proj,
                                SubData(v.data, win.xoff, win.yoff)))

----------------------------------------------------------------------------
(* trim_buffered_to_size *)

\* x_offset, y_offset as passed to read_as
TrimXoff(gt_o, gt_b) == AsUsize(gt_o[1] - gt_b[1], gt_b[2])
TrimYoff(gt_o, gt_b) == AsUsize(gt_o[4] - gt_b[4], gt_b[6])

TrimWindow(dso, dsb) ==
    Window(TrimXoff(dso.gt, dsb.gt), TrimYoff(dso.gt, dsb.gt), dso.w, dso.h)

trim_buffered_to_size(dso, dsb) ==
    LET win == TrimWindow(dso, dsb)
    IN  IF ~dso.openable THEN TileErr("open original", NoWindow)
        ELSE IF ~dsb.openable THEN TileErr("open buffered", NoWindow)
        ELSE IF ~ReadOk(dsb, win) THEN TileErr("read", win)
        ELSE IF ~CreateOk(dso.w, dso.h) THEN TileErr("create", win)
        ELSE TileOk(win, Raster(dso.w, dso.h, dso.gt, dso.proj,
                                SubData(dsb.data, win.xoff, win.yoff)))

----------------------------------------------------------------------------
(* The pipeline of main(): pad one tile against the mosaic, then crop it *)

TileProj == "EPSG:32633"
VrtProj == "EPSG:4326"

\* Scenario A: a 100x100 tile at (1000, 2000), pixel size (1, -1), margin 10,
\* against a mosaic covering (0,0)-(2000,2000).
ScenarioTile == Raster(100, 100, <<1000, 1, 0, 2000, 0, -1>>, TileProj, <<"own", 0, 0>>)
ScenarioVrt == Raster(2000, 2000, <<0, 1, 0, 2000, 0, -1>>, VrtProj, <<"vrt", 0, 0>>)
Scenario == [tile |-> ScenarioTile, vrt |-> ScenarioVrt, margin |-> 10]

BatchIdle ==
    /\ variant = "lib" /\ op = "pad" /\ listing = <<>> /\ idx = 0
    /\ bpc = "idle" /\ result = "none" /\ cause = "none"
    /\ outputs = {} /\ skipped = {} /\ invoked = {}

Init ==
    /\ \/ /\ \E g \in Grids, x0 \in Coords, y0 \in Coords,
                w \in 1..MaxTile, h \in 1..MaxTile :
                tile = Raster(w, h, <<x0, g[1], 0, y0, 0, g[2]>>, TileProj, <<"own", 0, 0>>)
          /\ \E G \in Grids, W \in 1..MaxMosaic, H \in 1..MaxMosaic :
                vrt = Raster(W, H, <<0, G[1], 0, 0, 0, G[2]>>, VrtProj, <<"vrt", 0, 0>>)
          /\ margin \in 0..MaxMargin
       \/ /\ tile = Scenario.tile
          /\ vrt = Scenario.vrt
          /\ margin = Scenario.margin
    /\ pc = "start"
    /\ padres = NoResult
    /\ cropres = NoResult
    /\ BatchIdle

\* vrt_buffer's per-tile call: add_margin_to_geotiff(&path, &output_path, margin, ..)
Pad ==
    /\ pc = "start"
    /\ padres' = add_margin_to_geotiff(tile, margin, vrt)
    /\ pc' = "padded"
    /\ UNCHANGED <<tile, vrt, margin, cropres>>
    /\ UNCHANGED batchVars

\* crop_down_to_size's per-tile call on a file of the padded directory:
\* trim_buffered_to_size(&org_dir.join(name), &path, &output_path)
Crop ==
    /\ pc = "padded"
    /\ padres.ok
    /\ cropres' = trim_buffered_to_size(tile, padres.out)
    /\ pc' = "cropped"
    /\ UNCHANGED <<tile, vrt, margin, padres>>
    /\ UNCHANGED batchVars

Next == Pad \/ Crop

Spec == Init /\ [][Next]_vars

----------------------------------------------------------------------------
(* Cropping a padded directory whose files are not known to come from Pad: *)
(* crop_down_to_size takes any directory of buffered files.                *)

\* Pixel sizes of the buffered file, 0 included (the quotient is then
\* infinite or NaN).
BufferedPixelSizes == {-2, -1, 0, 1, 2}

InitCrop ==
    /\ \E x0 \in Coords, y0 \in Coords, w \in 1..MaxTile, h \in 1..MaxTile :
          tile = Raster(w, h, <<x0, 1, 0, y0, 0, -1>>, TileProj, <<"own", 0, 0>>)
    /\ \E bw \in BufferedPixelSizes, bh \in BufferedPixelSizes, s \in 1..MaxMosaic :
          padres = TileOk(NoWindow,
                          Raster(s, s, <<0, bw, 0, 0, 0, bh>>, TileProj, <<"own", 0, 0>>))
    /\ vrt = ScenarioVrt
    /\ margin = 0
    /\ pc = "padded"
    /\ cropres = NoResult
    /\ BatchIdle

NextCrop == Crop

SpecCrop == InitCrop /\ [][NextCrop]_vars

----------------------------------------------------------------------------
(* Properties of the pad -> crop pipeline *)

\* The tile and the mosaic share one north-up pixel grid: equal pixel sizes,
\* positive width, negative height, origins a whole number of pixels apart.
CoRegistered ==
    /\ tile.gt[2] = vrt.gt[2] /\ tile.gt[6] = vrt.gt[6]
    /\ vrt.gt[2] > 0 /\ vrt.gt[6] < 0
    /\ (tile.gt[1] - vrt.gt[1]) % vrt.gt[2] = 0
    /\ (vrt.gt[4] - tile.gt[4]) % Abs(vrt.gt[6]) = 0

\* The mosaic pixel under the tile's pixel (0,0), on a shared grid.
TileCol == (tile.gt[1] - vrt.gt[1]) \div vrt.gt[2]
TileRow == (vrt.gt[4] - tile.gt[4]) \div Abs(vrt.gt[6])

\* The tile is a spatial subset of the mosaic.
TileInMosaic ==
    /\ 0 <= TileCol /\ TileCol + tile.w <= vrt.w
    /\ 0 <= TileRow /\ TileRow + tile.h <= vrt.h

\* C1: round trip.  For a tile of the mosaic on the shared grid and any
\* margin, pad succeeds, crop succeeds, and the cropped raster has the
\* original's size, geotransform and projection and holds the mosaic pixels
\* at the original tile's own position.
RoundTrip ==
    (CoRegistered /\ TileInMosaic) =>
        /\ pc = "padded" => padres.ok
        /\ pc = "cropped" =>
              /\ cropres.ok
              /\ cropres.out.w = tile.w /\ cropres.out.h = tile.h
              /\ cropres.out.gt = tile.gt
              /\ cropres.out.proj = tile.proj
              /\ cropres.out.data = <<"vrt", TileCol, TileRow>>

\* C2: margin clamp.  On the shared grid, when the window grown by the
\* margin passes the mosaic's left or right (top or bottom) boundary the
\* padded width (height) is strictly less than tile size + 2*margin, the
\* size never exceeds the mosaic's extent from the offset, and a tile at the
\* mosaic's top-left corner gets offset 0 and a strictly smaller output.
MarginClamp ==
    (pc # "start" /\ CoRegistered /\ TileInMosaic) =>
        LET win == padres.window
            pastX == TileCol - margin < 0 \/ TileCol + tile.w + margin > vrt.w
            pastY == TileRow - margin < 0 \/ TileRow + tile.h + margin > vrt.h
        IN  /\ pastX => win.cols < tile.w + 2 * margin
            /\ pastY => win.rows < tile.h + 2 * margin
            /\ win.cols <= vrt.w - win.xoff
            /\ win.rows <= vrt.h - win.yoff
            /\ (TileCol = 0 /\ TileRow = 0 /\ margin > 0) =>
                  /\ win.xoff = 0 /\ win.yoff = 0
                  /\ win.cols < tile.w + 2 * margin
                  /\ win.rows < tile.h + 2 * margin

\* C3: the pixel offsets into the mosaic that pad computes are never
\* negative, whatever the two geotransforms and the margin.
NonNegativeOffset ==
    pc # "start" => (padres.window.xoff >= 0 /\ padres.window.yoff >= 0)

\* C3 witness: pad ran on a tile whose expanded origin lies left of and above
\* the mosaic's origin, and both offsets were clamped to 0.
NonNegativeOffsetWitness ==
    /\ pc = "padded" /\ CoRegistered
    /\ TileCol - margin < 0 /\ TileRow - margin < 0
    /\ padres.window.xoff = 0 /\ padres.window.yoff = 0

\* C6: a successful pad creates an output of width min(W - xoff, w + 2m) and
\* height min(H - yoff, h + 2m) whose geotransform is the tile's with the
\* origin moved to (x0 - m*pw, y0 - m*ph) and whose projection is the
\* tile's; Scenario A gives 120x120 at (990, 2010).
PadShapeAndOrigin ==
    /\ (pc # "start" /\ padres.ok) =>
          /\ padres.out.w = Min(vrt.w - padres.window.xoff, tile.w + 2 * margin)
          /\ padres.out.h = Min(vrt.h - padres.window.yoff, tile.h + 2 * margin)
          /\ padres.out.gt = <<tile.gt[1] - margin * tile.gt[2], tile.gt[2], tile.gt[3],
                               tile.gt[4] - margin * tile.gt[6], tile.gt[5], tile.gt[6]>>
          /\ padres.out.proj = tile.proj
    /\ (pc # "start" /\ tile = Scenario.tile /\ vrt = Scenario.vrt
          /\ margin = Scenario.margin) =>
          /\ padres.ok
          /\ padres.out.w = 120 /\ padres.out.h = 120
          /\ padres.out.gt[1] = 990 /\ padres.out.gt[4] = 2010

\* C6 witness: Scenario A has been padded.
PadShapeAndOriginWitness ==
    /\ pc = "padded" /\ padres.ok
    /\ tile = Scenario.tile /\ vrt = Scenario.vrt /\ margin = Scenario.margin
    /\ padres.out.w = 120 /\ padres.out.gt[1] = 990

\* C7: the window pad passes to the mosaic read lies inside the mosaic for
\* every position of a tile on the mosaic's grid (inside it, over an edge or
\* outside it), and its size is the size of the created output.
PadWindowInBounds ==
    (pc # "start" /\ CoRegistered) =>
        LET win == padres.window
        IN  /\ win.xoff >= 0 /\ win.yoff >= 0
            /\ win.cols >= 0 /\ win.rows >= 0
            /\ win.xoff + win.cols <= vrt.w
            /\ win.yoff + win.rows <= vrt.h
            /\ padres.ok => (padres.out.w = win.cols /\ padres.out.h = win.rows)

\* C8: the window crop reads from a padded tile that pad produced lies
\* inside the padded tile.
CropWindowInBounds ==
    (pc = "cropped" /\ CoRegistered /\ TileInMosaic) =>
        /\ cropres.window.xoff + tile.w <= padres.out.w
        /\ cropres.window.yoff + tile.h <= padres.out.h

\* C10: crop reads at x_offset = (orig_x - padded_x) / padded_pixel_width and
\* y_offset = (padded_y - orig_y) / abs(padded_pixel_height), truncated
\* toward zero, not clamped, whatever the signs.
CropOffsetRule ==
    (pc = "cropped" /\ padres.out.gt[2] # 0 /\ padres.out.gt[6] # 0) =>
        /\ cropres.window.xoff =
              Trunc(tile.gt[1] - padres.out.gt[1], padres.out.gt[2])
        /\ cropres.window.yoff =
              Trunc(padres.out.gt[4] - tile.gt[4], Abs(padres.out.gt[6]))

\* The quotient a/b as the program casts it to usize and passes it on as
\* isize: |a| div |b| with the quotient's sign, then saturated.
SaturatedTrunc(a, b) ==
    IF b = 0 THEN (IF a > 0 THEN 0 - 1 ELSE 0)
    ELSE IF (a < 0) # (b < 0) THEN 0
    ELSE Abs(a) \div Abs(b)

\* C10 amended: x_offset = (orig_x - padded_x) / padded_pixel_width and
\* y_offset = (orig_y - padded_y) / padded_pixel_height (the signed pixel
\* height), each truncated toward zero and saturated by the cast to usize: a
\* negative or NaN quotient reads at 0, an infinite one at usize::MAX.
CropOffsetRuleAmended ==
    pc = "cropped" =>
        /\ cropres.window.xoff =
              SaturatedTrunc(tile.gt[1] - padres.out.gt[1], padres.out.gt[2])
        /\ cropres.window.yoff =
              SaturatedTrunc(tile.gt[4] - padres.out.gt[4], padres.out.gt[6])

\* C10 witness: crop ran where the x quotient is negative and not whole and
\* the buffered pixel height is positive with a positive y quotient.
CropOffsetRuleWitness ==
    /\ pc = "cropped"
    /\ padres.out.gt[2] = 2 /\ tile.gt[1] - padres.out.gt[1] = 0 - 3
    /\ padres.out.gt[6] = 2 /\ tile.gt[4] - padres.out.gt[4] = 3
    /\ cropres.window.xoff = 0 /\ cropres.window.yoff = 1

----------------------------------------------------------------------------
(* The batch drivers: vrt_buffer and crop_down_to_size, as lib.rs and as   *)
(* main.rs define them.                                                    *)

\* What a directory entry is: a raster with extension tif or tiff, a file
\* named *.tif on which the per-tile operation fails (pad: it does not open
\* as a dataset; crop: the original directory has no file of that name), a
\* file with another extension, or an entry read_dir yields as Err.
Kinds == {"tif", "tiff", "bad_tif", "txt", "entry_err"}

IsTile(e) == e.kind \in {"tif", "tiff", "bad_tif"}

\* Listings of n entries named 1..n, in every order read_dir may yield them.
Listings ==
    UNION { { l \in [1..n -> [name : 1..n, kind : Kinds]] :
                \A i, j \in 1..n : i # j => l[i].name # l[j].name }
            : n \in 0..MaxFiles }

\* The mosaic of a batch and the one-pixel tile named n, far enough from the
\* mosaic's edges for the margin.
BatchVrt ==
    Raster(MaxFiles + 2 * MaxMargin, 1 + 2 * MaxMargin, <<0, 1, 0, 0, 0, -1>>,
           VrtProj, <<"vrt", 0, 0>>)
OriginalTile(n) ==
    Raster(1, 1, <<MaxMargin + n - 1, 1, 0, 0 - MaxMargin, 0, -1>>, TileProj,
           <<"own", 0, 0>>)

\* Dataset::open(path) in the directory vrt_buffer enumerates
PadInput(e) == IF e.kind = "bad_tif" THEN NoRaster ELSE OriginalTile(e.name)
\* Dataset::open(org_dir.join(file_name)): missing for a bad_tif
CropOriginal(e) == IF e.kind = "bad_tif" THEN NoRaster ELSE OriginalTile(e.name)
\* Dataset::open(path) in the padded directory crop_down_to_size enumerates
CropBuffered(e) == add_margin_to_geotiff(OriginalTile(e.name), margin, vrt).out

\* The per-tile call of the loop body
PerTile(e) ==
    IF op = "pad" THEN add_margin_to_geotiff(PadInput(e), margin, vrt)
    ELSE trim_buffered_to_size(CropOriginal(e), CropBuffered(e))

InitBatch ==
    /\ tile = NoRaster
    /\ vrt = BatchVrt
    /\ margin = MaxMargin
    /\ pc = "idle"
    /\ padres = NoResult
    /\ cropres = NoResult
    /\ variant \in {"lib", "main"}
    /\ op \in {"pad", "crop"}
    /\ listing \in Listings
    /\ idx = 0
    /\ bpc = "start"
    /\ result = "none"
    /\ cause = "none"
    /\ outputs = {}
    /\ skipped = {}
    /\ invoked = {}

\* The call returns Err(e) from step c.
ReturnErr(c) ==
    /\ bpc' = "done"
    /\ result' = "Err"
    /\ cause' = c
    /\ UNCHANGED <<variant, op, listing, idx, outputs, skipped, invoked>>

Goto(p) ==
    /\ bpc' = p
    /\ UNCHANGED <<variant, op, listing, idx, result, cause, outputs, skipped, invoked>>

\* fs::create_dir_all(output_dir)?
CreateDir ==
    /\ bpc = "start"
    /\ \/ ReturnErr("create_dir")
       \/ Goto(IF op = "pad" THEN "open_vrt" ELSE "read_dir")
    /\ UNCHANGED geomVars

\* let vrt_ds = Dataset::open(vrt_file)?; let vrt_band = vrt_ds.rasterband(1)?;
OpenVrt ==
    /\ bpc = "open_vrt"
    /\ \/ ReturnErr("open_mosaic")
       \/ ReturnErr("mosaic_band")
       \/ Goto("read_dir")
    /\ UNCHANGED geomVars

\* let paths = fs::read_dir(input_dir)?;
ReadDir ==
    /\ bpc = "read_dir"
    /\ \/ ReturnErr("read_dir")
       \/ /\ bpc' = "loop"
          /\ idx' = 1
          /\ UNCHANGED <<variant, op, listing, result, cause, outputs, skipped, invoked>>
    /\ UNCHANGED geomVars

\* The loop goes on to the next entry.
Continue ==
    /\ idx' = idx + 1
    /\ UNCHANGED <<variant, op, listing, bpc, result, cause>>

\* The per-tile call on entry e, its output file when it succeeds.
Written(e) == {[name |-> e.name, file |-> PerTile(e).out]}

\* One iteration of the loop of lib.rs: every failure is reported and the
\* loop continues.
LoopLib ==
    /\ bpc = "loop" /\ variant = "lib" /\ idx <= Len(listing)
    /\ LET e == listing[idx]
       IN  \/ /\ e.kind = "entry_err"
              /\ Continue
              /\ UNCHANGED <<outputs, skipped, invoked>>
           \/ /\ e.kind = "txt"
              /\ Continue
              /\ UNCHANGED <<outputs, skipped, invoked>>
           \/ /\ IsTile(e) /\ PerTile(e).ok
              /\ Continue
              /\ invoked' = invoked \cup {e.name}
              /\ outputs' = outputs \cup Written(e)
              /\ UNCHANGED skipped
           \/ /\ IsTile(e) /\ ~PerTile(e).ok
              /\ Continue
              /\ invoked' = invoked \cup {e.name}
              /\ skipped' = skipped \cup {e.name}
              /\ UNCHANGED outputs
    /\ UNCHANGED geomVars

\* One iteration of the loop of main.rs: `path?` and the per-tile call's `?`
\* return the error from the batch call.
LoopMain ==
    /\ bpc = "loop" /\ variant = "main" /\ idx <= Len(listing)
    /\ LET e == listing[idx]
       IN  \/ /\ e.kind = "entry_err"
              /\ ReturnErr("dir_entry")
           \/ /\ e.kind = "txt"
              /\ Continue
              /\ UNCHANGED <<outputs, skipped, invoked>>
           \/ /\ IsTile(e) /\ PerTile(e).ok
              /\ Continue
              /\ invoked' = invoked \cup {e.name}
              /\ outputs' = outputs \cup Written(e)
              /\ UNCHANGED skipped
           \/ /\ IsTile(e) /\ ~PerTile(e).ok
              /\ bpc' = "done"
              /\ result' = "Err"
              /\ cause' = "tile"
              /\ invoked' = invoked \cup {e.name}
              /\ UNCHANGED <<variant, op, listing, idx, outputs, skipped>>
    /\ UNCHANGED geomVars

\* Ok(()) after the last entry
ReturnOk ==
    /\ bpc = "loop" /\ idx > Len(listing)
    /\ bpc' = "done"
    /\ result' = "Ok"
    /\ UNCHANGED <<variant, op, listing, idx, cause, outputs, skipped, invoked>>
    /\ UNCHANGED geomVars

NextBatch == CreateDir \/ OpenVrt \/ ReadDir \/ LoopLib \/ LoopMain \/ ReturnOk

SpecBatch == InitBatch /\ [][NextBatch]_vars

----------------------------------------------------------------------------
(* Properties of the batch drivers *)

Entries == {listing[i] : i \in 1..Len(listing)}
TileNames == {e.name : e \in {x \in Entries : IsTile(x)}}
FailingNames == {e.name : e \in {x \in Entries : IsTile(x) /\ ~PerTile(x).ok}}
NoEntryErr == \A e \in Entries : e.kind # "entry_err"

\* The call got as far as the loop: the output directory was created, the
\* mosaic opened and the input directory enumerated.
Enumerated == bpc = "done" /\ cause \notin {"create_dir", "open_mosaic", "mosaic_band", "read_dir"}

\* C4: error as skip.  When the directories are accessible and the batch
\* holds failing tiles, the per-tile operation is still invoked on every
\* tile, every other tile gets its output, exactly the failing tiles are
\* reported as skipped, and the call returns Ok.
ErrorAsSkip ==
    (Enumerated /\ NoEntryErr) =>
        /\ result = "Ok"
        /\ invoked = TileNames
        /\ {o.name : o \in outputs} = TileNames \ FailingNames
        /\ skipped = FailingNames

\* C5: the batch call returns an error only when creating the output
\* directory or enumerating the input directory failed.
BatchFailureCauses ==
    (bpc = "done" /\ result = "Err") => cause \in {"create_dir", "read_dir", "dir_entry"}

\* C9: order independence.  Whatever the order of the listing, the output
\* directory holds exactly the per-tile result of every tile whose own
\* per-tile operation succeeds: a function of the set of tiles alone.
OrderIndependence ==
    (Enumerated /\ NoEntryErr) =>
        outputs = UNION {Written(e) : e \in {x \in Entries : IsTile(x) /\ PerTile(x).ok}}

\* lib.rs alone keeps C4 and C9: only main.rs breaks them.
LibErrorAsSkip == variant = "lib" => (ErrorAsSkip /\ OrderIndependence)

\* lib.rs alone: the call fails only on the output directory, the mosaic or
\* the enumeration of the input directory.
LibFailureCauses ==
    (variant = "lib" /\ bpc = "done" /\ result = "Err") =>
        cause \in {"create_dir", "open_mosaic", "mosaic_band", "read_dir"}

----------------------------------------------------------------------------
(* Georeferencing of the padded output *)

\* C11: the geotransform written to a padded raster places its pixel (0,0)
\* at the world position of the mosaic pixel (xoff, yoff) read into it:
\* x_origin = mosaic_x_origin + xoff * mosaic_pixel_width and
\* y_origin = mosaic_y_origin - yoff * abs(mosaic_pixel_height), for every
\* tile of the mosaic on the shared grid, clamped offsets included.
PaddedGeoreferenced ==
    (pc # "start" /\ padres.ok /\ CoRegistered /\ TileInMosaic) =>
        /\ padres.out.gt[1] = vrt.gt[1] + padres.window.xoff * vrt.gt[2]
        /\ padres.out.gt[4] = vrt.gt[4] - padres.window.yoff * Abs(vrt.gt[6])

\* Where no offset was clamped the padded output is georeferenced as C11
\* says: the defect is confined to margins cut at the top or left edge.
PaddedGeoreferencedUnclamped ==
    (pc # "start" /\ padres.ok /\ CoRegistered /\ TileInMosaic
        /\ TileCol >= margin /\ TileRow >= margin) =>
        /\ padres.out.gt[1] = vrt.gt[1] + padres.window.xoff * vrt.gt[2]
        /\ padres.out.gt[4] = vrt.gt[4] - padres.window.yoff * Abs(vrt.gt[6])

====
